---- MODULE Spec2Model ----
(***************************************************************************)
(* Bookkeeping engine of AIWealth: the expense / budget / notification     *)
(* store of src/database.py and the routes of src/app.py that call it.     *)
(*                                                                         *)
(* Text (str) values are sequences of one-character strings, so that       *)
(* strip(), lower() and the `in` substring test are computed and not       *)
(* assumed.  Python arguments that may be None, a number or a numeric      *)
(* string are tagged records (PyNone, Num, Str).  Amounts are whole        *)
(* numbers of currency units; the REAL columns hold them exactly.          *)
(***************************************************************************)
EXTENDS Integers, Sequences, FiniteSets, TLC

VARIABLES expenses, budgets, notifications, savings_goals, sqlite_sequence,
          connections, session, chat_histories, now, model, last

vars == <<expenses, budgets, notifications, savings_goals, sqlite_sequence,
          connections, session, chat_histories, now, model, last>>

\* the tables of the database file
tables == <<expenses, budgets, notifications, savings_goals, sqlite_sequence>>

\* the state of the web application: the session cookie of every browser, the
\* chat_histories dict of the process, the wall clock, and whether the Gemini
\* model was configured at start-up (the global `model` is not None)
web == <<session, chat_histories, now, model>>

(***************************************************************************)
(* Bounds of the model.                                                    *)
(***************************************************************************)
\* number of expense ids the store may issue in one behaviour
MaxExpenses == 2
\* number of expense ids issued in the limit-100 scenario
MaxScenarioExpenses == 3
\* length of a description given to the classifier
MaxLen == 20
\* number of stored expenses when the list is paged
MaxRows == 25
\* number of savings goal ids the store may issue
MaxGoals == 2
\* number of requests served at the same time, each on its own connection
MaxConnections == 2
\* the number of browsers
MaxSessions == 2
\* the clock stops after MaxTicks ticks
MaxTicks == 2
\* the entries of all chat histories
MaxHistory == 3

(***************************************************************************)
(* Python values.                                                          *)
(***************************************************************************)
PyNone == [t |-> "none"]
Num(n) == [t |-> "num", v |-> n]
Str(s) == [t |-> "str", v |-> s]

Digits == <<"0","1","2","3","4","5","6","7","8","9">>

DigitValue(c) == (CHOOSE i \in 1..10 : Digits[i] = c) - 1

RECURSIVE ParseNat(_)
\* float() of a string of decimal digits
ParseNat(s) ==
  IF s = <<>> THEN 0
  ELSE ParseNat(SubSeq(s, 1, Len(s) - 1)) * 10 + DigitValue(s[Len(s)])

\* Python truthiness, as used by `not x`
Truthy(x) ==
  CASE x.t = "none" -> FALSE
    [] x.t = "num"  -> x.v # 0
    [] x.t = "str"  -> x.v # <<>>

\* float(x) for the numbers and digit strings of the model
Float(x) == IF x.t = "num" THEN x.v ELSE ParseNat(x.v)

Whitespace == {" ", "\t", "\n"}

RECURSIVE LStrip(_)
LStrip(s) ==
  IF s # <<>> /\ s[1] \in Whitespace THEN LStrip(SubSeq(s, 2, Len(s))) ELSE s

RECURSIVE RStrip(_)
RStrip(s) ==
  IF s # <<>> /\ s[Len(s)] \in Whitespace THEN RStrip(SubSeq(s, 1, Len(s) - 1)) ELSE s

\* str.strip()
Strip(s) == RStrip(LStrip(s))

UpperCase == <<"A","B","C","D","E","F","G","H","I","J","K","L","M",
               "N","O","P","Q","R","S","T","U","V","W","X","Y","Z">>
LowerCase == <<"a","b","c","d","e","f","g","h","i","j","k","l","m",
               "n","o","p","q","r","s","t","u","v","w","x","y","z">>

\* str.lower()
Lower(s) ==
  [i \in 1..Len(s) |->
     IF \E k \in 1..26 : UpperCase[k] = s[i]
     THEN LowerCase[CHOOSE k \in 1..26 : UpperCase[k] = s[i]]
     ELSE s[i]]

\* `k in d` on str
IsSubstring(k, d) ==
  \E i \in 0..(Len(d) - Len(k)) : SubSeq(d, i + 1, i + Len(k)) = k

(***************************************************************************)
(* Category classifier: categorize_expense.                                *)
(***************************************************************************)
other == <<"o","t","h","e","r">>

\* the `categories` dict, in insertion order (each keyword list has no duplicates)
CategoryKeywords ==
  << [category |-> <<"f","o","o","d">>,
      keywords |-> {<<"g","r","o","c","e","r","i","e","s">>,
                    <<"r","e","s","t","a","u","r","a","n","t">>,
                    <<"s","n","a","c","k">>,
                    <<"f","o","o","d">>,
                    <<"l","u","n","c","h">>,
                    <<"d","i","n","n","e","r">>,
                    <<"b","r","e","a","k","f","a","s","t">>,
                    <<"c","a","f","e">>,
                    <<"c","o","f","f","e","e">>,
                    <<"m","e","a","l">>,
                    <<"t","a","k","e","o","u","t">>,
                    <<"d","e","l","i","v","e","r","y">>,
                    <<"d","i","n","e">>}],
     [category |-> <<"h","o","u","s","i","n","g">>,
      keywords |-> {<<"r","e","n","t">>,
                    <<"m","o","r","t","g","a","g","e">>,
                    <<"u","t","i","l","i","t","i","e","s">>,
                    <<"e","l","e","c","t","r","i","c","i","t","y">>,
                    <<"w","a","t","e","r">>,
                    <<"g","a","s"," ","b","i","l","l">>,
                    <<"i","n","t","e","r","n","e","t">>,
                    <<"r","e","p","a","i","r">>,
                    <<"m","a","i","n","t","e","n","a","n","c","e">>,
                    <<"p","r","o","p","e","r","t","y">>,
                    <<"f","u","r","n","i","t","u","r","e">>,
                    <<"h","o","m","e">>,
                    <<"a","p","a","r","t","m","e","n","t">>}],
     [category |-> <<"t","r","a","n","s","p","o","r","t">>,
      keywords |-> {<<"g","a","s">>,
                    <<"u","b","e","r">>,
                    <<"b","u","s">>,
                    <<"c","a","r">>,
                    <<"t","a","x","i">>,
                    <<"t","r","a","i","n">>,
                    <<"s","u","b","w","a","y">>,
                    <<"l","y","f","t">>,
                    <<"f","u","e","l">>,
                    <<"t","r","a","n","s","i","t">>,
                    <<"t","r","a","n","s","p","o","r","t","a","t","i","o","n">>,
                    <<"c","o","m","m","u","t","e">>,
                    <<"v","e","h","i","c","l","e">>,
                    <<"m","a","i","n","t","e","n","a","n","c","e">>,
                    <<"p","a","r","k","i","n","g">>}],
     [category |-> <<"e","n","t","e","r","t","a","i","n","m","e","n","t">>,
      keywords |-> {<<"m","o","v","i","e">>,
                    <<"g","a","m","e">>,
                    <<"c","o","n","c","e","r","t">>,
                    <<"t","h","e","a","t","e","r">>,
                    <<"n","e","t","f","l","i","x">>,
                    <<"s","u","b","s","c","r","i","p","t","i","o","n">>,
                    <<"s","t","r","e","a","m","i","n","g">>,
                    <<"h","o","b","b","y">>,
                    <<"l","e","i","s","u","r","e">>,
                    <<"e","v","e","n","t">>,
                    <<"t","i","c","k","e","t">>,
                    <<"s","h","o","w">>,
                    <<"m","u","s","i","c">>,
                    <<"s","p","o","r","t","s">>}],
     [category |-> <<"s","h","o","p","p","i","n","g">>,
      keywords |-> {<<"c","l","o","t","h","e","s">>,
                    <<"e","l","e","c","t","r","o","n","i","c","s">>,
                    <<"s","h","o","e","s">>,
                    <<"a","m","a","z","o","n">>,
                    <<"o","n","l","i","n","e">>,
                    <<"m","a","l","l">>,
                    <<"r","e","t","a","i","l">>,
                    <<"p","u","r","c","h","a","s","e">>,
                    <<"c","l","o","t","h","i","n","g">>,
                    <<"a","c","c","e","s","s","o","r","y">>,
                    <<"d","e","v","i","c","e">>,
                    <<"g","a","d","g","e","t">>,
                    <<"a","p","p","l","i","a","n","c","e">>}],
     [category |-> <<"h","e","a","l","t","h">>,
      keywords |-> {<<"d","o","c","t","o","r">>,
                    <<"m","e","d","i","c","a","l">>,
                    <<"m","e","d","i","c","i","n","e">>,
                    <<"p","h","a","r","m","a","c","y">>,
                    <<"h","e","a","l","t","h","c","a","r","e">>,
                    <<"d","e","n","t","a","l">>,
                    <<"v","i","s","i","o","n">>,
                    <<"f","i","t","n","e","s","s">>,
                    <<"g","y","m">>,
                    <<"w","e","l","l","n","e","s","s">>,
                    <<"h","o","s","p","i","t","a","l">>,
                    <<"p","r","e","s","c","r","i","p","t","i","o","n">>}] >>

Matches(keywords, description) ==
  Cardinality({k \in keywords : IsSubstring(k, description)})

RECURSIVE BestCategory(_, _, _, _)
\* the loop over categories.items(): a later category replaces the best one
\* only when its count is strictly larger
BestCategory(i, description, max_matches, best_category) ==
  IF i > Len(CategoryKeywords) THEN best_category
  ELSE LET matches == Matches(CategoryKeywords[i].keywords, description)
       IN IF matches > max_matches
          THEN BestCategory(i + 1, description, matches, CategoryKeywords[i].category)
          ELSE BestCategory(i + 1, description, max_matches, best_category)

categorize_expense(description) ==
  IF description = <<>> THEN other
  ELSE BestCategory(1, Lower(description), 0, other)

(***************************************************************************)
(* Inputs of the model.                                                    *)
(***************************************************************************)
food   == <<"f","o","o","d">>
travel == <<"t","r","a","v","e","l">>
blank  == <<" ">>
lunch  == <<"l","u","n","c","h">>
flight_to_NYC == <<"f","l","i","g","h","t"," ","t","o"," ","N","Y","C">>

InvalidAmounts == {PyNone, Num(-1), Num(0)}
Amounts      == InvalidAmounts \cup {Num(20), Num(101)}
Descriptions == {<<>>, lunch}
CategoryArgs == {PyNone, Str(blank), Str(food), Str(travel)}
BudgetCategoryArgs == {PyNone, Str(blank), Str(travel)}
Limits       == {Num(-1), Num(0), Str(<<"0">>), Num(100), Num(250)}
ExpenseIds   == 1..MaxExpenses

\* a submitted form: a field that was not sent is PyNone
Forms ==
  [amount      : {PyNone, Str(<<"0">>), Str(<<"2","0">>)},
   category    : {PyNone, Str(travel)},
   description : {PyNone, Str(<<>>), Str(lunch)}]

\* the inputs of the threshold cases: one category, limits 100 and 250 (and the
\* 300 of a budget row created by add_expense), spends on both sides of them
ThresholdAmounts      == {Num(0), Num(20), Num(101), Num(300), Num(301)}
ThresholdDescriptions == {flight_to_NYC}
ThresholdCategoryArgs == {Str(travel)}
ThresholdLimits       == {Num(100), Num(250)}
ThresholdForms ==
  [amount      : {PyNone, Str(<<"2","0">>)},
   category    : {Str(travel)},
   description : {Str(flight_to_NYC)}]

\* the inputs of the limit-100 scenario: amounts whose sums reach 101 and 121
\* in one call or in several
ScenarioAmounts == {Num(1), Num(20), Num(81), Num(100), Num(101), Num(121)}
ScenarioForms ==
  [amount      : {Str(<<"2","0">>)},
   category    : {Str(travel)},
   description : {Str(lunch)}]

AllDescriptions == Descriptions \cup ThresholdDescriptions

\* the words of the descriptions given to the classifier: keywords of one
\* category (with upper case), of two categories ("maintenance"), of none, and
\* words that together hold a keyword of another category ("gas bill")
maintenance == <<"m","a","i","n","t","e","n","a","n","c","e">>
Lunch       == <<"L","u","n","c","h">>
cafe        == <<"c","a","f","e">>
gas         == <<"g","a","s">>
bill        == <<"b","i","l","l">>
bought      == <<"b","o","u","g","h","t">>
at          == <<"a","t">>
Words == {maintenance, Lunch, cafe, gas, bill, bought, at}

\* a description with one more word
AddWord(description, word) ==
  IF description = <<>> THEN word ELSE description \o <<" ">> \o word

\* request.form.get(key, default)
FormGet(form, key, default) == IF form[key] = PyNone THEN default ELSE form[key]

(***************************************************************************)
(* The store: the tables of init_db and the statements run on them.        *)
(***************************************************************************)
housing       == <<"h","o","u","s","i","n","g">>
transport     == <<"t","r","a","n","s","p","o","r","t">>
entertainment == <<"e","n","t","e","r","t","a","i","n","m","e","n","t">>
shopping      == <<"s","h","o","p","p","i","n","g">>
health        == <<"h","e","a","l","t","h">>

\* the rows init_db inserts into budgets (spent_amount takes its DEFAULT 0)
default_budgets ==
  (food :> 500) @@ (housing :> 1500) @@ (transport :> 300) @@
  (entertainment :> 200) @@ (shopping :> 300) @@ (health :> 300) @@ (other :> 200)

\* the committed content of the database file
Store ==
  [expenses        |-> expenses,
   budgets         |-> budgets,
   notifications   |-> notifications,
   savings_goals   |-> savings_goals,
   sqlite_sequence |-> sqlite_sequence]

\* INSERT INTO expenses (amount, description, category, date); id is AUTOINCREMENT
InsertExpense(tx, amount, description, category) ==
  LET id == tx.sqlite_sequence.expenses + 1
  IN [tx EXCEPT
        !.expenses = @ \cup {[id |-> id, amount |-> amount,
                              description |-> description, category |-> category]},
        !.sqlite_sequence.expenses = id]

\* mutant: ON CONFLICT DO UPDATE SET spent_amount = amount
UpsertBudgetSpent_Overwrite(tx, category, amount) ==
  IF category \in DOMAIN tx.budgets
  THEN [tx EXCEPT !.budgets[category].spent_amount = amount]
  ELSE [tx EXCEPT !.budgets =
          (category :> [limit_amount |-> 300, spent_amount |-> amount]) @@ @]

\* INSERT INTO budgets (category, 300, amount) ON CONFLICT(category)
\* DO UPDATE SET spent_amount = spent_amount + amount
UpsertBudgetSpent(tx, category, amount) ==
  IF category \in DOMAIN tx.budgets
  THEN [tx EXCEPT !.budgets[category].spent_amount = @ + amount]
  ELSE [tx EXCEPT !.budgets =
          (category :> [limit_amount |-> 300, spent_amount |-> amount]) @@ @]

\* Python round() of the quotient num/den to an integer: ties go to the even
\* one.  The quotient is the exact one; the float quotient rounds the same way
\* for the limits a spend of the model can exceed (100, 250, 300, 500).
RoundHalfEven(num, den) ==
  LET q == num \div den
      r == num % den
  IN IF 2 * r < den THEN q
     ELSE IF 2 * r > den THEN q + 1
     ELSE IF q % 2 = 0 THEN q ELSE q + 1

\* percentage = round((spent_amount / limit_amount) * 100)
Percentage(budget) == RoundHalfEven(100 * budget.spent_amount, budget.limit_amount)

\* mutant: the boundary value 120 already gives an alert
NotificationType_AtLeast(percentage) == IF percentage >= 120 THEN "alert" ELSE "warning"

\* notification_type, from the rounded percentage
NotificationType(percentage) == IF percentage > 120 THEN "alert" ELSE "warning"

\* INSERT INTO notifications (message, status, type) VALUES (?, 'unread', ?)
\* the message is its three interpolated fields
InsertNotification(tx, category, budget, percentage, notification_type) ==
  LET id == tx.sqlite_sequence.notifications + 1
  IN [tx EXCEPT
        !.notifications = @ \cup
           {[id |-> id,
             message |-> [category |-> category,
                          limit_amount |-> budget.limit_amount,
                          percentage |-> percentage],
             status |-> "unread",
             type |-> notification_type]},
        !.sqlite_sequence.notifications = id]

\* mutant: a spend equal to the limit counts as over it
OverBudget_AtLeast(budget) == budget.spent_amount >= budget.limit_amount

\* `budget and budget['spent_amount'] > budget['limit_amount']`
OverBudget(budget) == budget.spent_amount > budget.limit_amount

\* the outcome of a `with db_connection()` body
Done(tx, value)  == [tx |-> tx, committed |-> TRUE,  error |-> "none", value |-> value]
Failed(tx, error) == [tx |-> tx, committed |-> FALSE, error |-> error,  value |-> 0]

\* mutant: the connection commits what was executed before the exception
db_connection_NoRollback(db, out) == out.tx

\* db_connection: sqlite3.Error is answered by conn.rollback(); any other
\* exception leaves the transaction open and conn.close() discards it
db_connection(db, out) == IF out.committed THEN out.tx ELSE db

\* the statements at which the store may raise sqlite3.Error
AddExpenseFaults    == {"none", "insert_expense", "upsert_budget", "select_budget",
                        "insert_notification", "commit"}
DeleteExpenseFaults == {"none", "select_expense", "delete_expense", "update_budget", "commit"}
SetBudgetFaults     == {"none", "upsert_budget", "commit"}

\* the body of add_expense's `with db_connection()` block
AddExpenseTransaction(db, amount, description, category, fault) ==
  LET t1 == InsertExpense(db, amount, description, category)
      expense_id == t1.sqlite_sequence.expenses
      t2 == UpsertBudgetSpent(t1, category, amount)
      budget == t2.budgets[category]
      percentage == Percentage(budget)
      t3 == IF OverBudget(budget)
            THEN InsertNotification(t2, category, budget, percentage,
                                    NotificationType(percentage))
            ELSE t2
  IN IF fault = "insert_expense" \/ ~(amount > 0) THEN Failed(db, "sqlite3.Error")
     ELSE IF fault = "upsert_budget" THEN Failed(t1, "sqlite3.Error")
     ELSE IF fault = "select_budget" THEN Failed(t2, "sqlite3.Error")
     ELSE IF OverBudget(budget) /\ budget.limit_amount = 0
          THEN Failed(t2, "ZeroDivisionError")
     ELSE IF OverBudget(budget) /\ fault = "insert_notification"
          THEN Failed(t2, "sqlite3.Error")
     ELSE IF fault = "commit" THEN Failed(t3, "sqlite3.Error")
     ELSE Done(t3, expense_id)

\* categorize_expense on the descriptions the model submits, computed once
Categorized == [d \in AllDescriptions |-> categorize_expense(d)]

\* mutant: only a missing category is classified, a blank one is stored
CategoryMissing_NoneOnly(category) == category.t = "none"

\* `category is None or category.strip() == ""`
CategoryMissing(category) == category.t = "none" \/ Strip(category.v) = <<>>

Result(db, out) == [db |-> db_connection(db, out), error |-> out.error, value |-> out.value]
Raise(db, error) == [db |-> db, error |-> error, value |-> 0]

\* mutant: the description is not validated
add_expense_NoDescriptionCheck(db, amount, description, category, fault) ==
  IF ~Truthy(amount) \/ Float(amount) <= 0
  THEN Raise(db, "ValueError: Amount must be a positive number")
  ELSE LET cat == IF CategoryMissing(category)
                  THEN Categorized[description]
                  ELSE category.v
       IN Result(db, AddExpenseTransaction(db, Float(amount), description, cat, fault))

add_expense(db, amount, description, category, fault) ==
  IF ~Truthy(amount) \/ Float(amount) <= 0
  THEN Raise(db, "ValueError: Amount must be a positive number")
  ELSE IF description = <<>>
  THEN Raise(db, "ValueError: Description cannot be empty")
  ELSE LET cat == IF CategoryMissing(category)
                  THEN Categorized[description]
                  ELSE category.v
       IN Result(db, AddExpenseTransaction(db, Float(amount), description, cat, fault))

\* the ValueError messages of add_expense
ValueErrors == {"ValueError: Amount must be a positive number",
                "ValueError: Description cannot be empty"}

\* app.add_expense: the form fields with their defaults go to add_expense; the
\* answer is 302 (redirect), 400 on ValueError and 500 on any other exception
route_add_expense(db, form, fault) ==
  LET amount      == Num(Float(FormGet(form, "amount", Num(0))))
      category    == FormGet(form, "category", Str(other))
      description == FormGet(form, "description", Str(<<>>)).v
      r == add_expense(db, amount, description, category, fault)
  IN [db |-> r.db, error |-> r.error,
      value |-> IF r.error = "none" THEN 302
                ELSE IF r.error \in ValueErrors THEN 400 ELSE 500]

\* SELECT amount, category FROM expenses WHERE id = ?
SelectExpense(tx, expense_id) == {e \in tx.expenses : e.id = expense_id}

\* DELETE FROM expenses WHERE id = ?
DeleteExpenseRow(tx, expense_id) ==
  [tx EXCEPT !.expenses = {e \in @ : e.id # expense_id}]

Max(a, b) == IF a >= b THEN a ELSE b

\* mutant: the expense row is deleted and the budget is left as it was
DecrementBudgetSpent_Skip(tx, category, amount) == tx

\* UPDATE budgets SET spent_amount = MAX(0, spent_amount - amount) WHERE category = ?
DecrementBudgetSpent(tx, category, amount) ==
  IF category \in DOMAIN tx.budgets
  THEN [tx EXCEPT !.budgets[category].spent_amount = Max(0, @ - amount)]
  ELSE tx

\* mutant: a DELETE that matches no row is reported as a success
DeleteExpenseTransaction_NoLookup(db, expense_id, fault) ==
  LET found == SelectExpense(db, expense_id)
      expense == CHOOSE e \in found : TRUE
      t1 == DeleteExpenseRow(db, expense_id)
      t2 == IF found = {} THEN t1
            ELSE DecrementBudgetSpent(t1, expense.category, expense.amount)
  IN IF fault = "select_expense" THEN Failed(db, "sqlite3.Error")
     ELSE IF fault = "delete_expense" THEN Failed(db, "sqlite3.Error")
     ELSE IF fault = "update_budget" THEN Failed(t1, "sqlite3.Error")
     ELSE IF fault = "commit" THEN Failed(t2, "sqlite3.Error")
     ELSE Done(t2, 1)

\* the body of delete_expense's `with db_connection()` block
DeleteExpenseTransaction(db, expense_id, fault) ==
  LET found == SelectExpense(db, expense_id)
      expense == CHOOSE e \in found : TRUE
      t1 == DeleteExpenseRow(db, expense_id)
      t2 == DecrementBudgetSpent(t1, expense.category, expense.amount)
  IN IF fault = "select_expense" THEN Failed(db, "sqlite3.Error")
     ELSE IF found = {} THEN Failed(db, "ValueError: Expense not found")
     ELSE IF fault = "delete_expense" THEN Failed(db, "sqlite3.Error")
     ELSE IF fault = "update_budget" THEN Failed(t1, "sqlite3.Error")
     ELSE IF fault = "commit" THEN Failed(t2, "sqlite3.Error")
     ELSE Done(t2, 1)

delete_expense(db, expense_id, fault) ==
  Result(db, DeleteExpenseTransaction(db, expense_id, fault))

\* mutant: INSERT OR REPLACE, which resets spent_amount to its DEFAULT
UpsertBudgetLimit_Replace(tx, category, limit_amount) ==
  [tx EXCEPT !.budgets =
     [c \in DOMAIN @ \cup {category} |->
        IF c = category THEN [limit_amount |-> limit_amount, spent_amount |-> 0]
        ELSE @[c]]]

\* mutant: an UPDATE without its WHERE clause, which sets every row's limit
UpsertBudgetLimit_AllRows(tx, category, limit_amount) ==
  [tx EXCEPT !.budgets =
     [c \in DOMAIN @ \cup {category} |->
        [limit_amount |-> limit_amount,
         spent_amount |-> IF c \in DOMAIN @ THEN @[c].spent_amount ELSE 0]]]

\* INSERT INTO budgets (category, limit_amount) ON CONFLICT(category)
\* DO UPDATE SET limit_amount = ?
UpsertBudgetLimit(tx, category, limit_amount) ==
  IF category \in DOMAIN tx.budgets
  THEN [tx EXCEPT !.budgets[category].limit_amount = limit_amount]
  ELSE [tx EXCEPT !.budgets =
          (category :> [limit_amount |-> limit_amount, spent_amount |-> 0]) @@ @]

\* the body of set_budget's `with db_connection()` block
SetBudgetTransaction(db, category, limit_amount, fault) ==
  LET t1 == UpsertBudgetLimit(db, category, limit_amount)
  IN IF fault = "upsert_budget" \/ ~(limit_amount >= 0) THEN Failed(db, "sqlite3.Error")
     ELSE IF fault = "commit" THEN Failed(t1, "sqlite3.Error")
     ELSE Done(t1, 1)

set_budget(db, category, limit_amount, fault) ==
  IF ~Truthy(category) \/ Strip(category.v) = <<>>
  THEN Raise(db, "ValueError: Category cannot be empty")
  ELSE IF ~Truthy(limit_amount) \/ Float(limit_amount) < 0
  THEN Raise(db, "ValueError: Budget limit must be a non-negative number")
  ELSE Result(db, SetBudgetTransaction(db, category.v, Float(limit_amount), fault))

\* the ValueError messages of set_budget
SetBudgetValueErrors == {"ValueError: Category cannot be empty",
                         "ValueError: Budget limit must be a non-negative number"}

(***************************************************************************)
(* Savings goals: add_savings_goal and update_savings_goal.                *)
(***************************************************************************)
\* the statements at which the store may raise sqlite3.Error
AddGoalFaults    == {"none", "select_goal", "insert_goal", "commit"}
UpdateGoalFaults == {"none", "select_goal", "update_goal", "commit"}

\* SELECT goal_name FROM savings_goals WHERE goal_name = ? (TEXT compares
\* byte by byte: case-sensitive, nothing is stripped)
SelectGoalByName(tx, goal_name) == {g \in tx.savings_goals : g.goal_name = goal_name}

\* SELECT id FROM savings_goals WHERE id = ?
SelectGoalById(tx, goal_id) == {g \in tx.savings_goals : g.id = goal_id}

\* INSERT INTO savings_goals (goal_name, target_amount); id is AUTOINCREMENT
\* and current_savings takes its DEFAULT 0
InsertGoal(tx, goal_name, target_amount) ==
  LET id == tx.sqlite_sequence.savings_goals + 1
  IN [tx EXCEPT
        !.savings_goals = @ \cup {[id |-> id, goal_name |-> goal_name,
                                   target_amount |-> target_amount,
                                   current_savings |-> 0]},
        !.sqlite_sequence.savings_goals = id]

\* the schema's constraints on a new row: goal_name UNIQUE, target_amount > 0
GoalConstraints(tx, goal_name, target_amount) ==
  /\ \A g \in tx.savings_goals : g.goal_name # goal_name
  /\ target_amount > 0

\* mutant: the lookup of the name finds nothing
GoalNameTaken_Never(tx, goal_name) == FALSE

\* `if cursor.fetchone()` after the lookup of the name
GoalNameTaken(tx, goal_name) == SelectGoalByName(tx, goal_name) # {}

\* the body of add_savings_goal's `with db_connection()` block
AddGoalTransaction(db, goal_name, target_amount, fault) ==
  LET t1 == InsertGoal(db, goal_name, target_amount)
  IN IF fault = "select_goal" THEN Failed(db, "sqlite3.Error")
     ELSE IF GoalNameTaken(db, goal_name)
          THEN Failed(db, "ValueError: A savings goal with that name already exists")
     ELSE IF fault = "insert_goal" \/ ~GoalConstraints(db, goal_name, target_amount)
          THEN Failed(db, "sqlite3.Error")
     ELSE IF fault = "commit" THEN Failed(t1, "sqlite3.Error")
     ELSE Done(t1, t1.sqlite_sequence.savings_goals)

\* add_savings_goal(goal_name, target_amount); the deadline, which no claim
\* reads, is left out
add_savings_goal(db, goal_name, target_amount, fault) ==
  IF ~Truthy(goal_name) \/ Strip(goal_name.v) = <<>>
  THEN Raise(db, "ValueError: Goal name cannot be empty")
  ELSE IF ~Truthy(target_amount) \/ Float(target_amount) <= 0
  THEN Raise(db, "ValueError: Target amount must be a positive number")
  ELSE Result(db, AddGoalTransaction(db, goal_name.v, Float(target_amount), fault))

\* UPDATE savings_goals SET <the supplied fields> WHERE id = ?
UpdateGoal(tx, id, current_savings, target_amount) ==
  [tx EXCEPT !.savings_goals =
     {IF g.id # id THEN g
      ELSE [g EXCEPT
              !.current_savings = IF current_savings = PyNone THEN @
                                  ELSE Float(current_savings),
              !.target_amount   = IF target_amount = PyNone THEN @
                                  ELSE Float(target_amount)]
      : g \in @}]

\* the body of update_savings_goal's `with db_connection()` block: the goal is
\* looked up by its id when an id was given, by its name only otherwise
UpdateGoalTransaction(db, goal_id, goal_name, current_savings, target_amount, fault) ==
  LET found == IF Truthy(goal_id) THEN SelectGoalById(db, goal_id.v)
               ELSE SelectGoalByName(db, goal_name.v)
      goal  == CHOOSE g \in found : TRUE
      t1    == UpdateGoal(db, goal.id, current_savings, target_amount)
  IN IF fault = "select_goal" THEN Failed(db, "sqlite3.Error")
     ELSE IF found = {} THEN Failed(db, "ValueError: Savings goal not found")
     ELSE IF current_savings = PyNone /\ target_amount = PyNone THEN Done(db, 0)
     ELSE IF fault = "update_goal" THEN Failed(db, "sqlite3.Error")
     ELSE IF fault = "commit" THEN Failed(t1, "sqlite3.Error")
     ELSE Done(t1, 1)

\* update_savings_goal(goal_id, goal_name, current_savings, target_amount);
\* the value is 1 for True and 0 for False
update_savings_goal(db, goal_id, goal_name, current_savings, target_amount, fault) ==
  IF ~Truthy(goal_id) /\ ~Truthy(goal_name)
  THEN Raise(db, "ValueError: Either goal ID or goal name must be provided")
  ELSE IF current_savings # PyNone /\ Float(current_savings) < 0
  THEN Raise(db, "ValueError: Current savings cannot be negative")
  ELSE IF target_amount # PyNone /\ Float(target_amount) <= 0
  THEN Raise(db, "ValueError: Target amount must be positive")
  ELSE Result(db, UpdateGoalTransaction(db, goal_id, goal_name, current_savings,
                                        target_amount, fault))

(***************************************************************************)
(* Reporting: get_budget_overview.                                         *)
(***************************************************************************)
\* round(x, 1) of the quotient num/den, in tenths
RoundTenths(num, den) == RoundHalfEven(10 * num, den)

\* one entry of `results`; percentage is in tenths of a percent, and the
\* status is decided on the unrounded SQL percentage
OverviewRow(db, category) ==
  LET limit == db.budgets[category].limit_amount
      spent == db.budgets[category].spent_amount
  IN [category   |-> category,
      limit      |-> limit,
      spent      |-> spent,
      remaining  |-> limit - spent,
      percentage |-> IF limit > 0 THEN RoundTenths(100 * spent, limit) ELSE 0,
      status     |-> IF limit > 0 /\ 100 * spent >= 100 * limit THEN "exceeded"
                     ELSE IF limit > 0 /\ 100 * spent >= 80 * limit THEN "warning"
                     ELSE "normal"]

RECURSIVE SumField(_, _, _)
\* total_limit / total_spent: the sum of one column over the given budget rows
SumField(b, categories, field) ==
  IF categories = {} THEN 0
  ELSE LET c == CHOOSE x \in categories : TRUE
       IN b[c][field] + SumField(b, categories \ {c}, field)

\* get_budget_overview: 'categories' is the set of the entries of the list
\* (which the query orders by percentage, descending); the percentages are in
\* tenths
get_budget_overview(db) ==
  LET total_limit == SumField(db.budgets, DOMAIN db.budgets, "limit_amount")
      total_spent == SumField(db.budgets, DOMAIN db.budgets, "spent_amount")
  IN [categories |-> {OverviewRow(db, c) : c \in DOMAIN db.budgets},
      summary    |-> [total_limit        |-> total_limit,
                      total_spent        |-> total_spent,
                      total_remaining    |-> total_limit - total_spent,
                      overall_percentage |->
                        IF total_limit > 0
                        THEN RoundTenths(100 * total_spent, total_limit) ELSE 0]]

(***************************************************************************)
(* Reporting: get_budget_insights.                                         *)
(***************************************************************************)
\* get_budget_advice: the tier of the canned advice, by the rounded
\* percentage (in tenths)
get_budget_advice(percentage) ==
  IF percentage >= 1000 THEN "exceeded"
  ELSE IF percentage >= 900 THEN "very close"
  ELSE IF percentage >= 750 THEN "most used"
  ELSE IF percentage >= 500 THEN "moderate pace"
  ELSE "well within"

\* mutant: an unknown category raises
InsightsNotFound_Raise(category) ==
  [error |-> "ValueError: Budget not found", value |-> [category |-> category]]

\* `if not result: return {"message": ...}`: the message names the category
InsightsNotFound(category) ==
  [error |-> "none",
   value |-> [message |-> [text |-> "Budget not found. Please set a budget first.",
                           category |-> category]]]

\* the dict returned for a budget row; percentage is round(x, 1) in tenths of
\* a percent, and the status is decided on that rounded percentage
InsightsRow(db, category) ==
  LET limit_amount == db.budgets[category].limit_amount
      spent_amount == db.budgets[category].spent_amount
      percentage   == IF limit_amount > 0
                      THEN RoundTenths(100 * spent_amount, limit_amount) ELSE 0
  IN [category     |-> category,
      limit_amount |-> limit_amount,
      spent_amount |-> spent_amount,
      remaining    |-> limit_amount - spent_amount,
      percentage   |-> percentage,
      status       |-> IF percentage >= 1000 THEN "danger"
                       ELSE IF percentage >= 800 THEN "warning"
                       ELSE "good",
      advice       |-> get_budget_advice(percentage)]

\* get_budget_insights(category): `if category` sends None and "" to the
\* overview of all categories
get_budget_insights(db, category) ==
  IF Truthy(category)
  THEN IF category.v \in DOMAIN db.budgets
       THEN [error |-> "none", value |-> InsightsRow(db, category.v)]
       ELSE InsightsNotFound(category.v)
  ELSE [error |-> "none", value |-> get_budget_overview(db)]

(***************************************************************************)
(* Reporting: get_all_expenses.                                            *)
(***************************************************************************)
Min(a, b) == IF a <= b THEN a ELSE b

RECURSIVE OrderByDateDesc(_)
\* ORDER BY date DESC.  No caller passes a date, so a row's date is the time of
\* its insertion and the newest row comes first; rows inserted within the same
\* second are listed here in that order too.
OrderByDateDesc(rows) ==
  IF rows = {} THEN <<>>
  ELSE LET e == CHOOSE x \in rows : \A y \in rows : y.id <= x.id
       IN <<e>> \o OrderByDateDesc(rows \ {e})

\* LIMIT ? OFFSET ?: a negative LIMIT is no limit, a negative OFFSET is 0
LimitOffset(rows, limit, offset) ==
  LET first == Max(offset, 0) + 1
      end   == IF limit < 0 THEN Len(rows) ELSE Min(Len(rows), first + limit - 1)
  IN IF first > end THEN <<>> ELSE SubSeq(rows, first, end)

\* WHERE 1=1 [AND category = ?]: `if category` skips None and ""
WhereCategory(rows, category) ==
  IF Truthy(category) THEN {e \in rows : e.category = category.v} ELSE rows

\* mutant: the page count is rounded down
Pages_Floor(total_count, limit) == total_count \div limit

\* 'pages': (total_count + limit - 1) // limit
Pages(total_count, limit) == (total_count + limit - 1) \div limit

\* get_all_expenses(limit, offset, category): the page of rows (their ids, in
\* order) and the pagination record; limit 0 fails in `offset // limit`
get_all_expenses(db, limit, offset, category) ==
  LET rows == LimitOffset(OrderByDateDesc(WhereCategory(db.expenses, category)),
                          limit, offset)
      total_count == Cardinality(WhereCategory(db.expenses, category))
  IN IF limit = 0
     THEN [error |-> "ZeroDivisionError", expenses |-> <<>>,
           pagination |-> [total |-> total_count, page |-> 0,
                           limit |-> limit, pages |-> 0]]
     ELSE [error |-> "none",
           expenses |-> [i \in 1..Len(rows) |-> rows[i].id],
           pagination |-> [total |-> total_count,
                           page  |-> offset \div limit + 1,
                           limit |-> limit,
                           pages |-> Pages(total_count, limit)]]

(***************************************************************************)
(* The web application: sessions and chat histories.                       *)
(***************************************************************************)
Browsers == 1..MaxSessions

\* the clock ticks TicksPerSecond times a second
TicksPerSecond == 2

\* a session cookie without 'user_id'
NoCookie == [prefix |-> "", stamp |-> 0]

\* f"user_{datetime.now().strftime('%Y%m%d%H%M%S')}": the clock, cut to the second
NewUserId(t) == [prefix |-> "user_", stamp |-> t \div TicksPerSecond]

\* session.get('user_id', 'default_user')
default_user == [prefix |-> "default_user", stamp |-> 0]

\* s.find(sep) + 1: the position of the first occurrence of sep in s, 0 if none
Find(s, sep) ==
  IF IsSubstring(sep, s)
  THEN CHOOSE i \in 1..(Len(s) - Len(sep) + 1) :
         /\ SubSeq(s, i, i + Len(sep) - 1) = sep
         /\ \A j \in 1..(i - 1) : SubSeq(s, j, j + Len(sep) - 1) # sep
  ELSE 0

\* s.split(sep)[0]
SplitFirst(s, sep) ==
  IF Find(s, sep) = 0 THEN s ELSE SubSeq(s, 1, Find(s, sep) - 1)

\* len(s.split(sep)) > 1
HasSecond(s, sep) == Find(s, sep) # 0

\* s.split(sep)[1], for an s that holds sep
SplitSecond(s, sep) ==
  SplitFirst(SubSeq(s, Find(s, sep) + Len(sep), Len(s)), sep)

\* s.split()[0], <<>> standing for the IndexError of a blank s
FirstWord(s) ==
  LET t == LStrip(s)
  IN IF \E i \in 1..Len(t) : t[i] \in Whitespace
     THEN SubSeq(t, 1, (CHOOSE i \in 1..Len(t) :
                          /\ t[i] \in Whitespace
                          /\ \A j \in 1..(i - 1) : t[j] \notin Whitespace) - 1)
     ELSE t

\* s.replace(c, '')
Remove(s, c) == SelectSeq(s, LAMBDA x : x # c)

\* float(s) returns for the digit strings of the model and raises ValueError
\* for its words
CanFloat(s) == s # <<>> /\ \A i \in 1..Len(s) : \E k \in 1..10 : Digits[k] = s[i]

\* s.capitalize()
Capitalize(s) ==
  [i \in 1..Len(s) |->
     IF i = 1 /\ \E k \in 1..26 : LowerCase[k] = s[1]
     THEN UpperCase[CHOOSE k \in 1..26 : LowerCase[k] = s[1]]
     ELSE Lower(s)[i]]

RECURSIVE FormatNat(_)
\* str(n) of a natural number
FormatNat(n) ==
  IF n < 10 THEN <<Digits[n + 1]>>
  ELSE Append(FormatNat(n \div 10), Digits[(n % 10) + 1])

\* f"{amount:.2f}" of a whole amount
Format2f(amount) == FormatNat(amount) \o <<".", "0", "0">>

expense_triggers == {<<"a","d","d">>, <<"s","p","e","n","t">>, <<"p","a","i","d">>,
                     <<"b","o","u","g","h","t">>,
                     <<"p","u","r","c","h","a","s","e","d">>}
for == <<"f","o","r">>
on  == <<"o","n">>
to  == <<"t","o">>
set_budget_phrase   == <<"s","e","t"," ","b","u","d","g","e","t">>
set_a_budget_phrase == <<"s","e","t"," ","a"," ","b","u","d","g","e","t">>

\* parse_expense_message(message): the expense of a message like
\* 'Add $45 for groceries', PyNone for any other message
parse_expense_message(user_message) ==
  LET message         == Strip(Lower(user_message))
      has_trigger     == \E trigger \in expense_triggers : IsSubstring(trigger, message)
      has_amount      == IsSubstring(<<"$">>, message)
      has_description == \E connector \in {for, on, at} : IsSubstring(connector, message)
      amount_part     == Remove(FirstWord(SplitSecond(message, <<"$">>)), ",")
      description_part ==
        IF IsSubstring(for, message) THEN Strip(SplitSecond(message, for))
        ELSE IF IsSubstring(on, message) THEN Strip(SplitSecond(message, on))
        ELSE Strip(SplitSecond(message, at))
  IN IF has_trigger /\ has_amount /\ has_description /\ CanFloat(amount_part)
     THEN [t |-> "expense", amount |-> ParseNat(amount_part),
           description |-> description_part,
           category |-> categorize_expense(description_part)]
     ELSE PyNone

\* the budget command of a message: its category_part and amount_part,
\* "none" when the message is no budget command, "IndexError" when no "to"
\* follows the first "for"
BudgetCommand(user_message) ==
  LET message   == Lower(user_message)
      split_for == SplitSecond(message, for)
  IN IF ~(/\ IsSubstring(set_budget_phrase, message)
             \/ IsSubstring(set_a_budget_phrase, message)
          /\ IsSubstring(for, message)
          /\ IsSubstring(to, message))
     THEN [t |-> "none"]
     ELSE IF ~HasSecond(split_for, to) THEN [t |-> "IndexError"]
     ELSE [t |-> "budget",
           category_part |-> Strip(SplitFirst(split_for, to)),
           amount_part   |-> Remove(Remove(Strip(SplitSecond(split_for, to)), "$"), ",")]

\* the messages of browser b start with its number
Say(b, text) == <<Digits[b + 1], " ">> \o text

hi == <<"h","i">>
spent_20_on_lunch == <<"s","p","e","n","t"," ","$","2","0"," ","o","n"," ","l","u","n","c","h">>
add_0_for_lunch == <<"a","d","d"," ","$","0"," ","f","o","r"," ","l","u","n","c","h">>
set_budget_for_travel_to_100 ==
  <<"s","e","t"," ","b","u","d","g","e","t"," ","f","o","r"," ",
    "t","r","a","v","e","l"," ","t","o"," ","$","1","0","0">>
set_budget_for_travel_to_0 ==
  <<"s","e","t"," ","b","u","d","g","e","t"," ","f","o","r"," ",
    "t","r","a","v","e","l"," ","t","o"," ","$","0">>
set_budget_to_100_for_travel ==
  <<"s","e","t"," ","b","u","d","g","e","t"," ","t","o"," ","1","0","0"," ",
    "f","o","r"," ","t","r","a","v","e","l">>

\* free text, expense commands (accepted and rejected by add_expense) and
\* budget commands (accepted, rejected by set_budget, and malformed)
ChatTexts == {hi, spent_20_on_lunch, add_0_for_lunch, set_budget_for_travel_to_100,
              set_budget_for_travel_to_0, set_budget_to_100_for_travel}
ChatMessages(b) == {<<>>} \cup {Say(b, text) : text \in ChatTexts}
ChatFaults == {"none", "commit"}
LlmOutcomes == {"ok", "raises"}

\* parse_expense_message and BudgetCommand on the messages the model submits,
\* computed once
AllChatMessages == UNION {ChatMessages(b) : b \in Browsers}
Parsed   == [m \in AllChatMessages |-> parse_expense_message(m)]
Commands == [m \in AllChatMessages |-> BudgetCommand(m)]

\* an entry of a chat history
Entry(role, text) == [role |-> role, parts |-> <<text>>]

\* chat_histories after `if user_id not in chat_histories:
\* chat_histories[user_id] = []` and the appends of entries
AppendEntries(histories, user_id, entries) ==
  IF user_id \in DOMAIN histories
  THEN [histories EXCEPT ![user_id] = @ \o entries]
  ELSE (user_id :> entries) @@ histories

\* the texts of the answers
no_message == <<"No message provided">>
error_response == <<"I'm sorry, I encountered an error processing your request.">>
limited_mode == <<"I'm currently running in limited mode. Please configure a Gemini API key to enable all features.">>
response_text == <<"r", "e", "p", "l", "y">>

expense_added(expense_info) ==
  <<"I've added your expense of $">> \o Format2f(expense_info.amount)
    \o <<" for ">> \o expense_info.description
    \o <<" in the ">> \o Capitalize(expense_info.category)
    \o <<" category. You can view your spending breakdown in the dashboard.">>

budget_set(category_part, amount) ==
  <<"I've set your budget for ">> \o category_part \o <<" to $">>
    \o Format2f(amount) \o <<".">>

\* what a /chat request leaves: the database, chat_histories, the text of the
\* JSON response and the history handed to model.start_chat (<<>> when it was
\* not called)
ChatResult(db, histories, response, context) ==
  [db |-> db, chat_histories |-> histories, response |-> response, context |-> context]

\* the regular chat processing: the user entry is appended, then the model is asked
\* (with the earlier entries as history unless this is the first entry) and
\* its answer appended; an exception of the model call ends in the error
\* response
RegularChat(db, histories, user_id, user_message, configured, llm) ==
  LET h1 == AppendEntries(histories, user_id, <<Entry("user", user_message)>>)
      context == IF Len(h1[user_id]) = 1 THEN <<>>
                 ELSE SubSeq(h1[user_id], 1, Len(h1[user_id]) - 1)
  IN IF ~configured
     THEN ChatResult(db, AppendEntries(h1, user_id, <<Entry("model", limited_mode)>>),
                     limited_mode, <<>>)
     ELSE IF llm = "raises"
     THEN ChatResult(db, h1, error_response, context)
     ELSE ChatResult(db, AppendEntries(h1, user_id, <<Entry("model", response_text)>>),
                     response_text, context)

\* chat(): the /chat route for the session's user_id
chat(db, histories, user_id, user_message, configured, fault, llm) ==
  LET expense_info == Parsed[user_message]
      command      == Commands[user_message]
  IN IF user_message = <<>> THEN ChatResult(db, histories, no_message, <<>>)
     ELSE IF expense_info # PyNone
     THEN LET r == add_expense(db, Num(expense_info.amount), expense_info.description,
                               Str(expense_info.category), fault)
          IN IF r.error = "none"
             THEN ChatResult(r.db,
                    AppendEntries(histories, user_id,
                      <<Entry("user", user_message),
                        Entry("model", expense_added(expense_info))>>),
                    expense_added(expense_info), <<>>)
             ELSE ChatResult(r.db, histories, error_response, <<>>)
     ELSE IF command.t = "IndexError"
     THEN ChatResult(db, histories, error_response, <<>>)
     ELSE IF command.t = "budget" /\ CanFloat(command.amount_part)
     THEN LET amount == ParseNat(command.amount_part)
              r == set_budget(db, Str(command.category_part), Num(amount), fault)
          IN IF r.error = "none"
             THEN ChatResult(r.db,
                    AppendEntries(histories, user_id,
                      <<Entry("user", user_message),
                        Entry("model", budget_set(command.category_part, amount))>>),
                    budget_set(command.category_part, amount), <<>>)
             ELSE IF r.error \in SetBudgetValueErrors
             THEN RegularChat(r.db, histories, user_id, user_message, configured, llm)
             ELSE ChatResult(r.db, histories, error_response, <<>>)
     ELSE RegularChat(db, histories, user_id, user_message, configured, llm)

(***************************************************************************)
(* State machine.                                                          *)
(***************************************************************************)
\* the web application after start-up with a GEMINI_API_KEY: no browser holds
\* a session cookie and chat_histories = {}
InitWeb ==
  /\ session = [b \in Browsers |-> NoCookie]
  /\ chat_histories = <<>>
  /\ now = 0
  /\ model = TRUE

\* the database after init_db on a new file
Init ==
  /\ expenses = {}
  /\ budgets = [c \in DOMAIN default_budgets |->
                  [limit_amount |-> default_budgets[c], spent_amount |-> 0]]
  /\ notifications = {}
  /\ savings_goals = {}
  /\ sqlite_sequence = [expenses |-> 0, notifications |-> 0, savings_goals |-> 0]
  /\ connections = <<>>
  /\ InitWeb
  /\ last = [op |-> "init_db", error |-> "none", value |-> 0]

\* the database file after a call that ran alone returned or raised: its
\* connection was opened and closed within the call
Commit(db) ==
  /\ expenses' = db.expenses
  /\ budgets' = db.budgets
  /\ notifications' = db.notifications
  /\ savings_goals' = db.savings_goals
  /\ sqlite_sequence' = db.sqlite_sequence
  /\ UNCHANGED <<connections, web>>

\* database.add_expense(amount, description, category)
AddExpense(amount, description, category, fault) ==
  LET r == add_expense(Store, amount, description, category, fault)
  IN /\ Commit(r.db)
     /\ last' = [op |-> "add_expense", error |-> r.error, value |-> r.value]

\* database.delete_expense(expense_id)
DeleteExpense(expense_id, fault) ==
  LET r == delete_expense(Store, expense_id, fault)
  IN /\ Commit(r.db)
     /\ last' = [op |-> "delete_expense", error |-> r.error, value |-> expense_id]

\* database.set_budget(category, limit_amount)
SetBudget(category, limit_amount, fault) ==
  LET r == set_budget(Store, category, limit_amount, fault)
  IN /\ Commit(r.db)
     /\ last' = [op |-> "set_budget", error |-> r.error, value |-> r.value]

\* the /add_expense route: 302 to the dashboard, 400 on ValueError, 500 otherwise
AddExpenseRoute(form, fault) ==
  LET r == route_add_expense(Store, form, fault)
  IN /\ Commit(r.db)
     /\ last' = [op |-> "route_add_expense", error |-> r.error, value |-> r.value]

\* database.get_budget_overview(): reads only
GetBudgetOverview ==
  /\ UNCHANGED <<tables, connections, web>>
  /\ last' = [op |-> "get_budget_overview", error |-> "none",
              value |-> Cardinality(get_budget_overview(Store).categories)]

\* the calls that record an expense; the store issues at most maxExpenses ids
AddStep(maxExpenses, amounts, descriptions, categoryArgs, forms) ==
  \/ \E amount \in amounts, description \in descriptions,
        category \in categoryArgs, fault \in AddExpenseFaults :
       /\ sqlite_sequence.expenses < maxExpenses
       /\ AddExpense(amount, description, category, fault)
  \/ \E form \in forms, fault \in AddExpenseFaults :
       /\ sqlite_sequence.expenses < maxExpenses
       /\ AddExpenseRoute(form, fault)

\* the other calls
OtherStep(budgetCategoryArgs, limits) ==
  \/ \E expense_id \in ExpenseIds, fault \in DeleteExpenseFaults :
       DeleteExpense(expense_id, fault)
  \/ \E category \in budgetCategoryArgs, limit_amount \in limits,
        fault \in SetBudgetFaults :
       SetBudget(category, limit_amount, fault)
  \/ GetBudgetOverview

\* the ledger with two categories
Next ==
  \/ AddStep(MaxExpenses, Amounts, Descriptions, CategoryArgs, Forms)
  \/ OtherStep(BudgetCategoryArgs, Limits)

Spec == Init /\ [][Next]_vars

\* one category, spends around its limits
NextThreshold ==
  \/ AddStep(MaxExpenses, ThresholdAmounts, ThresholdDescriptions,
             ThresholdCategoryArgs, ThresholdForms)
  \/ OtherStep(ThresholdCategoryArgs, ThresholdLimits)

SpecThreshold == Init /\ [][NextThreshold]_vars

\* categorize_expense(description), as the chat route and add_expense call it
Classify(description) ==
  /\ UNCHANGED <<tables, connections, web>>
  /\ last' = [op |-> "categorize_expense", error |-> "none",
              value |-> [description |-> description,
                         category |-> categorize_expense(description)]]

\* the store after init_db and categorize_expense("")
InitClassify ==
  /\ expenses = {}
  /\ budgets = [c \in DOMAIN default_budgets |->
                  [limit_amount |-> default_budgets[c], spent_amount |-> 0]]
  /\ notifications = {}
  /\ savings_goals = {}
  /\ sqlite_sequence = [expenses |-> 0, notifications |-> 0, savings_goals |-> 0]
  /\ connections = <<>>
  /\ InitWeb
  /\ last = [op |-> "categorize_expense", error |-> "none",
             value |-> [description |-> <<>>, category |-> categorize_expense(<<>>)]]

\* the classifier on descriptions of growing length: each call classifies the
\* description of the call before with one more word
NextClassify ==
  \E word \in Words :
    /\ Len(AddWord(last.value.description, word)) <= MaxLen
    /\ Classify(AddWord(last.value.description, word))

SpecClassify == InitClassify /\ [][NextClassify]_vars

\* database.get_all_expenses(limit, offset, category): reads only
GetAllExpenses(limit, offset, category) ==
  LET r == get_all_expenses(Store, limit, offset, category)
  IN /\ UNCHANGED <<tables, connections, web>>
     /\ last' = [op |-> "get_all_expenses", error |-> r.error,
                 value |-> [limit |-> limit, offset |-> offset,
                            category |-> category,
                            expenses |-> r.expenses,
                            pagination |-> r.pagination]]

PageLimits   == {0, 3, 10, 25}
PageOffsets  == {0, 10, 20, 30}
PageCategoryArgs == {PyNone, Str(<<>>), Str(blank), Str(food)}

\* the list of expenses, paged, while expenses of 20 for "lunch" are recorded
\* under food and travel in turn
NextPages ==
  \/ \E category \in {food, travel} :
       /\ sqlite_sequence.expenses < MaxRows
       /\ category = IF sqlite_sequence.expenses % 2 = 0 THEN food ELSE travel
       /\ AddExpense(Num(20), lunch, Str(category), "none")
  \/ \E limit \in PageLimits, offset \in PageOffsets, category \in PageCategoryArgs :
       GetAllExpenses(limit, offset, category)

SpecPages == Init /\ [][NextPages]_vars

\* database.add_savings_goal(goal_name, target_amount)
AddSavingsGoal(goal_name, target_amount, fault) ==
  LET r == add_savings_goal(Store, goal_name, target_amount, fault)
  IN /\ Commit(r.db)
     /\ last' = [op |-> "add_savings_goal", error |-> r.error, value |-> r.value]

\* database.update_savings_goal(goal_id, goal_name, current_savings, target_amount)
UpdateSavingsGoal(goal_id, goal_name, current_savings, target_amount, fault) ==
  LET r == update_savings_goal(Store, goal_id, goal_name, current_savings,
                               target_amount, fault)
  IN /\ Commit(r.db)
     /\ last' = [op |-> "update_savings_goal", error |-> r.error, value |-> r.value]

Emergency_Fund == <<"E","m","e","r","g","e","n","c","y"," ","F","u","n","d">>
emergency_fund == <<"e","m","e","r","g","e","n","c","y"," ","f","u","n","d">>
Vacation       == <<"V","a","c","a","t","i","o","n">>

GoalNames      == {PyNone, Str(blank), Str(Emergency_Fund), Str(emergency_fund),
                   Str(Vacation)}
GoalTargets    == {PyNone, Num(-1), Num(0), Num(5000)}
GoalIdArgs     == {PyNone, Num(0), Num(1), Num(2), Num(3)}
GoalNameArgs   == {PyNone, Str(Emergency_Fund), Str(emergency_fund)}
CurrentSavings == {PyNone, Num(-1), Num(0), Num(2500)}
UpdateTargets  == {PyNone, Num(0), Num(100)}

\* the savings goals; the store issues at most MaxGoals ids
NextGoals ==
  \/ \E goal_name \in GoalNames, target_amount \in GoalTargets,
        fault \in AddGoalFaults :
       /\ sqlite_sequence.savings_goals < MaxGoals
       /\ AddSavingsGoal(goal_name, target_amount, fault)
  \/ \E goal_id \in GoalIdArgs, goal_name \in GoalNameArgs,
        current_savings \in CurrentSavings, target_amount \in UpdateTargets,
        fault \in UpdateGoalFaults :
       UpdateSavingsGoal(goal_id, goal_name, current_savings, target_amount, fault)

SpecGoals == Init /\ [][NextGoals]_vars

\* database.get_budget_insights(category): reads only
GetBudgetInsights(category) ==
  LET r == get_budget_insights(Store, category)
  IN /\ UNCHANGED <<tables, connections, web>>
     /\ last' = [op |-> "get_budget_insights", error |-> r.error, value |-> r.value]

\* the inputs of the reports: a limit of 10000 with spends of 79.96%, 99.96%
\* and 100% of it, and categories with and without a budget row
InsightAmounts      == {Num(4), Num(2000), Num(7996)}
InsightLimits       == {Num(250), Num(10000)}
InsightCategoryArgs == {PyNone, Str(<<>>), Str(blank), Str(food), Str(travel)}

\* the reports on a budget that is set and spent
NextInsights ==
  \/ \E amount \in InsightAmounts, fault \in AddExpenseFaults :
       /\ sqlite_sequence.expenses < MaxExpenses
       /\ AddExpense(amount, lunch, Str(travel), fault)
  \/ \E limit_amount \in InsightLimits, fault \in SetBudgetFaults :
       SetBudget(Str(travel), limit_amount, fault)
  \/ \E category \in InsightCategoryArgs : GetBudgetInsights(category)
  \/ GetBudgetOverview

SpecInsights == Init /\ [][NextInsights]_vars

(***************************************************************************)
(* Requests served at the same time.  Every call opens its own connection  *)
(* to the one database file (sqlite3.connect in db_connection), and the    *)
(* file's locks order the transactions: SHARED to read, RESERVED to write  *)
(* (one holder), PENDING and then EXCLUSIVE to commit (no reader left).    *)
(* A connection reads the committed tables as they were when it took its   *)
(* SHARED lock, together with its own uncommitted statements.  A statement *)
(* that cannot get its lock waits (up to the connection's timeout) or      *)
(* raises sqlite3.OperationalError, which db_connection answers by         *)
(* rollback.                                                               *)
(***************************************************************************)
Procs == 1..MaxConnections

\* the store init_db creates
init_db ==
  [expenses        |-> {},
   budgets         |-> [c \in DOMAIN default_budgets |->
                          [limit_amount |-> default_budgets[c], spent_amount |-> 0]],
   notifications   |-> {},
   savings_goals   |-> {},
   sqlite_sequence |-> [expenses |-> 0, notifications |-> 0, savings_goals |-> 0]]

\* the store when the requests arrive: after add_expense(20, "lunch",
\* "travel") and add_expense(101, "lunch", "travel")
StartStore ==
  add_expense(add_expense(init_db, Num(20), lunch, Str(travel), "none").db,
              Num(101), lunch, Str(travel), "none").db

\* the requests: delete_expense(expense_id) of a stored and of an absent id,
\* add_expense(amount, "lunch", "travel") below and above the limit
Requests ==
  {[op |-> "delete_expense", expense_id |-> 1, amount |-> 0],
   [op |-> "delete_expense", expense_id |-> 3, amount |-> 0],
   [op |-> "add_expense",    expense_id |-> 0, amount |-> 20],
   [op |-> "add_expense",    expense_id |-> 0, amount |-> 200]}

\* the locks another connection holds
OtherLocks(p) == {connections[q].lock : q \in DOMAIN connections \ {p}}

\* a SHARED lock is granted unless another connection is committing
CanShare(p) == "PENDING" \notin OtherLocks(p)

\* a RESERVED lock is granted unless another connection writes or commits
CanReserve(p) == OtherLocks(p) \cap {"RESERVED", "PENDING"} = {}

\* mutant: COMMIT does not wait for the readers
CanCommit_Always(p) == TRUE

\* the EXCLUSIVE lock of COMMIT is granted when no other connection reads
CanCommit(p) == OtherLocks(p) \subseteq {"NONE"}

\* a connection before its first statement; tx is its transaction's view of
\* the tables, <<>> while it holds no lock
Connect(request) ==
  [request |-> request, pc |-> "begin", lock |-> "NONE", tx |-> <<>>,
   expense |-> {}, error |-> "none", value |-> 0]

\* what the connection reads: its transaction once it holds a lock, the
\* committed tables before
View(p) == IF connections[p].lock = "NONE" THEN Store ELSE connections[p].tx

\* the call returns or raises: the transaction is over (commit, rollback or
\* conn.close()) and its locks are released
Finish(p, error, value) ==
  connections' = [connections EXCEPT ![p].pc = "done", ![p].lock = "NONE",
                                     ![p].tx = <<>>, ![p].expense = {},
                                     ![p].error = error, ![p].value = value]

\* the connection has run a statement on its transaction
Run(p, pc, lock, tx) ==
  connections' = [connections EXCEPT ![p].pc = pc, ![p].lock = lock, ![p].tx = tx]

\* cursor.execute('BEGIN TRANSACTION'): no lock is taken yet
Begin(p) ==
  /\ connections[p].pc = "begin"
  /\ connections' = [connections EXCEPT
       ![p].pc = IF connections[p].request.op = "delete_expense"
                 THEN "select_expense" ELSE "insert_expense"]
  /\ UNCHANGED <<tables, last, web>>

\* delete_expense: SELECT amount, category FROM expenses WHERE id = ?; an
\* absent id is answered by conn.rollback() and ValueError
DeleteSelect(p) ==
  /\ connections[p].pc = "select_expense"
  /\ CanShare(p)
  /\ LET expense == SelectExpense(View(p), connections[p].request.expense_id)
     IN IF expense = {}
        THEN Finish(p, "ValueError: Expense not found", 0)
        ELSE connections' = [connections EXCEPT
               ![p].pc = "delete_expense", ![p].lock = "SHARED",
               ![p].tx = View(p), ![p].expense = expense]
  /\ UNCHANGED <<tables, last, web>>

\* delete_expense: DELETE FROM expenses WHERE id = ?
DeleteRow(p) ==
  /\ connections[p].pc = "delete_expense"
  /\ CanReserve(p)
  /\ Run(p, "update_budget", "RESERVED",
         DeleteExpenseRow(connections[p].tx, connections[p].request.expense_id))
  /\ UNCHANGED <<tables, last, web>>

\* delete_expense: UPDATE budgets SET spent_amount = MAX(0, spent_amount - ?),
\* with the amount and category the SELECT returned
DeleteUpdateBudget(p) ==
  /\ connections[p].pc = "update_budget"
  /\ LET expense == CHOOSE e \in connections[p].expense : TRUE
     IN Run(p, "commit", "RESERVED",
            DecrementBudgetSpent(connections[p].tx, expense.category, expense.amount))
  /\ UNCHANGED <<tables, last, web>>

\* add_expense: INSERT INTO expenses, the first statement of the transaction
AddInsert(p) ==
  /\ connections[p].pc = "insert_expense"
  /\ CanShare(p) /\ CanReserve(p)
  /\ LET tx == InsertExpense(View(p), connections[p].request.amount, lunch, travel)
     IN connections' = [connections EXCEPT
          ![p].pc = "upsert_budget", ![p].lock = "RESERVED", ![p].tx = tx,
          ![p].value = tx.sqlite_sequence.expenses]
  /\ UNCHANGED <<tables, last, web>>

\* add_expense: INSERT INTO budgets ... ON CONFLICT(category) DO UPDATE
AddUpsertBudget(p) ==
  /\ connections[p].pc = "upsert_budget"
  /\ Run(p, "select_budget", "RESERVED",
         UpsertBudgetSpent(connections[p].tx, travel, connections[p].request.amount))
  /\ UNCHANGED <<tables, last, web>>

\* add_expense: SELECT limit_amount, spent_amount, and the notification of a
\* budget that is over its limit (a limit of 0 ends in ZeroDivisionError)
AddCheckBudget(p) ==
  /\ connections[p].pc = "select_budget"
  /\ LET tx         == connections[p].tx
         budget     == tx.budgets[travel]
         percentage == Percentage(budget)
     IN IF ~OverBudget(budget) THEN Run(p, "commit", "RESERVED", tx)
        ELSE IF budget.limit_amount = 0 THEN Finish(p, "ZeroDivisionError", 0)
        ELSE Run(p, "commit", "RESERVED",
                 InsertNotification(tx, travel, budget, percentage,
                                    NotificationType(percentage)))
  /\ UNCHANGED <<tables, last, web>>

\* conn.commit(), first part: the writer takes the PENDING lock, after which
\* no new reader is let in
CommitPending(p) ==
  /\ connections[p].pc = "commit"
  /\ Run(p, "commit_exclusive", "PENDING", connections[p].tx)
  /\ UNCHANGED <<tables, last, web>>

\* conn.commit(), second part: once no reader is left the transaction is
\* written to the file and the call returns
CommitExclusive(p) ==
  /\ connections[p].pc = "commit_exclusive"
  /\ CanCommit(p)
  /\ expenses' = connections[p].tx.expenses
  /\ budgets' = connections[p].tx.budgets
  /\ notifications' = connections[p].tx.notifications
  /\ savings_goals' = connections[p].tx.savings_goals
  /\ sqlite_sequence' = connections[p].tx.sqlite_sequence
  /\ Finish(p, "none", IF connections[p].request.op = "delete_expense"
                       THEN 1 ELSE connections[p].value)
  /\ UNCHANGED <<last, web>>

\* a statement that did not get its lock raises sqlite3.OperationalError
\* (database is locked); db_connection rolls the transaction back
Busy(p) ==
  /\ \/ connections[p].pc = "select_expense" /\ ~CanShare(p)
     \/ connections[p].pc = "delete_expense" /\ ~CanReserve(p)
     \/ connections[p].pc = "insert_expense" /\ ~(CanShare(p) /\ CanReserve(p))
     \/ connections[p].pc = "commit_exclusive" /\ ~CanCommit(p)
  /\ Finish(p, "sqlite3.Error", 0)
  /\ UNCHANGED <<tables, last, web>>

\* the tables after a request wrote db
WriteTables(db) ==
  /\ expenses' = db.expenses
  /\ budgets' = db.budgets
  /\ notifications' = db.notifications
  /\ savings_goals' = db.savings_goals
  /\ sqlite_sequence' = db.sqlite_sequence

\* session.get('user_id', 'default_user')
UserIdOf(b) == IF session[b] = NoCookie THEN default_user ELSE session[b]

\* a second of the wall clock passes in TicksPerSecond steps; the clock is
\* read by index() for a browser without a cookie only
Tick ==
  /\ now < MaxTicks
  /\ \E b \in Browsers : session[b] = NoCookie
  /\ now' = now + 1
  /\ UNCHANGED <<tables, connections, session, chat_histories, model, last>>

\* index(): GET / from browser b
Index(b) ==
  LET user_id == IF session[b] = NoCookie THEN NewUserId(now) ELSE session[b]
  IN /\ session' = [session EXCEPT ![b] = user_id]
     /\ chat_histories' = AppendEntries(chat_histories, user_id, <<>>)
     /\ UNCHANGED <<tables, connections, now, model, last>>

\* chat(): POST /chat from browser b
Chat(b, user_message, fault, llm) ==
  LET r == chat(Store, chat_histories, UserIdOf(b), user_message, model, fault, llm)
  IN /\ WriteTables(r.db)
     /\ chat_histories' = r.chat_histories
     /\ last' = [op |-> "chat",
                 error |-> IF r.response = error_response THEN "error" ELSE "none",
                 value |-> 200]
     /\ UNCHANGED <<connections, session, now, model>>

\* the application after start-up, with and without a GEMINI_API_KEY
InitChat ==
  /\ expenses = {}
  /\ budgets = [c \in DOMAIN default_budgets |->
                  [limit_amount |-> default_budgets[c], spent_amount |-> 0]]
  /\ notifications = {}
  /\ savings_goals = {}
  /\ sqlite_sequence = [expenses |-> 0, notifications |-> 0, savings_goals |-> 0]
  /\ connections = <<>>
  /\ session = [b \in Browsers |-> NoCookie]
  /\ chat_histories = <<>>
  /\ now = 0
  /\ model \in BOOLEAN
  /\ last = [op |-> "init_db", error |-> "none", value |-> 0]

RECURSIVE TotalEntries(_)
\* the number of entries of all chat histories
TotalEntries(histories) ==
  IF DOMAIN histories = {} THEN 0
  ELSE LET user_id == CHOOSE u \in DOMAIN histories : TRUE
       IN Len(histories[user_id])
            + TotalEntries([u \in DOMAIN histories \ {user_id} |-> histories[u]])

\* the requests of the browsers; the histories take up to MaxHistory entries
\* and the expenses table up to MaxExpenses rows
NextChat ==
  \/ Tick
  \/ \E b \in Browsers : Index(b)
  \/ \E b \in Browsers : \E user_message \in ChatMessages(b),
                            fault \in ChatFaults, llm \in LlmOutcomes :
       /\ TotalEntries(chat_histories) + 2 <= MaxHistory
       /\ sqlite_sequence.expenses < MaxExpenses
       /\ Chat(b, user_message, fault, llm)

SpecChat == InitChat /\ [][NextChat]_vars

\* the requests arrive together on the store of StartStore
InitConcurrent ==
  /\ expenses = StartStore.expenses
  /\ budgets = StartStore.budgets
  /\ notifications = StartStore.notifications
  /\ savings_goals = StartStore.savings_goals
  /\ sqlite_sequence = StartStore.sqlite_sequence
  /\ connections \in [Procs -> {Connect(request) : request \in Requests}]
  /\ InitWeb
  /\ last = [op |-> "add_expense", error |-> "none", value |-> 2]

\* the statements of the requests, in any interleaving
NextConcurrent ==
  \E p \in Procs :
    \/ Begin(p)
    \/ DeleteSelect(p)
    \/ DeleteRow(p)
    \/ DeleteUpdateBudget(p)
    \/ AddInsert(p)
    \/ AddUpsertBudget(p)
    \/ AddCheckBudget(p)
    \/ CommitPending(p)
    \/ CommitExclusive(p)
    \/ Busy(p)

SpecConcurrent == InitConcurrent /\ [][NextConcurrent]_vars

\* the store after init_db and set_budget("travel", 100)
InitScenario ==
  /\ expenses = {}
  /\ budgets = (travel :> [limit_amount |-> 100, spent_amount |-> 0]) @@
               [c \in DOMAIN default_budgets |->
                  [limit_amount |-> default_budgets[c], spent_amount |-> 0]]
  /\ notifications = {}
  /\ savings_goals = {}
  /\ sqlite_sequence = [expenses |-> 0, notifications |-> 0, savings_goals |-> 0]
  /\ connections = <<>>
  /\ InitWeb
  /\ last = [op |-> "set_budget", error |-> "none", value |-> 1]

\* sequences of add_expense calls in the one category
NextScenario ==
  AddStep(MaxScenarioExpenses, ScenarioAmounts, {lunch}, ThresholdCategoryArgs,
          ScenarioForms)

SpecScenario == InitScenario /\ [][NextScenario]_vars

(***************************************************************************)
(* Properties.                                                             *)
(***************************************************************************)
RECURSIVE SumAmounts(_)
\* the sum of the amounts of a set of expense rows
SumAmounts(rows) ==
  IF rows = {} THEN 0
  ELSE LET e == CHOOSE x \in rows : TRUE
       IN e.amount + SumAmounts(rows \ {e})

ExpensesOf(rows, category) == {e \in rows : e.category = category}

\* C1: after any sequence of add_expense, delete_expense and set_budget calls,
\* successful or failed, every category with a stored expense has a budget row
\* and every budget row's spent_amount is the sum of the amounts of the stored
\* expenses of its category.
C1_SpentEqualsSumOfExpenses ==
  /\ \A e \in expenses : e.category \in DOMAIN budgets
  /\ \A c \in DOMAIN budgets :
       budgets[c].spent_amount = SumAmounts(ExpensesOf(expenses, c))

\* an expense is stored, another was deleted, and a set_budget on a category
\* that has spend just succeeded
C1_Witness ==
  /\ last.op = "set_budget" /\ last.error = "none"
  /\ sqlite_sequence.expenses > Cardinality(expenses)
  /\ \E e \in expenses : e.category = travel /\ budgets[travel].limit_amount = 100

\* spent_amount of a category in a budgets table; 0 when it has no row
Spent(b, category) == IF category \in DOMAIN b THEN b[category].spent_amount ELSE 0

AddOps == {"add_expense", "route_add_expense"}

\* C2: add_expense is all-or-nothing.  A call that raises, whatever statement
\* failed, leaves expenses, budgets, notifications and the id counters as they
\* were; a call that returns has added one expense row together with the
\* increment of its category's spent_amount by the row's amount.
C2_AddExpenseAllOrNothing ==
  [][ last'.op \in AddOps =>
        IF last'.error # "none"
        THEN UNCHANGED <<expenses, budgets, notifications, sqlite_sequence>>
        ELSE \E e \in expenses' \ expenses :
               /\ expenses' = expenses \cup {e}
               /\ Spent(budgets', e.category) = Spent(budgets, e.category) + e.amount
    ]_vars

\* an add_expense failed after its INSERT and its budget upsert had run (the
\* percentage division by a zero limit), with rows already in the store
C2_Witness ==
  /\ last.op = "add_expense" /\ last.error = "ZeroDivisionError"
  /\ expenses # {}
  /\ budgets[travel] = [limit_amount |-> 0, spent_amount |-> 0]

\* C3: a successful add_expense followed at once by delete_expense of the
\* returned id succeeds, and leaves the expenses table and the spent_amount of
\* the expense's category as they were before the add_expense.
C3_AddThenDeleteRestores ==
  [][ (last'.op = "add_expense" /\ last'.error = "none") =>
        LET r == delete_expense(Store', last'.value, "none")
        IN /\ r.error = "none"
           /\ r.db.expenses = expenses
           /\ \A e \in expenses' \ expenses :
                Spent(r.db.budgets, e.category) = Spent(budgets, e.category)
    ]_vars

\* the newest expense was just deleted while its category keeps other spend
C3_Witness ==
  /\ last.op = "delete_expense" /\ last.error = "none"
  /\ last.value = sqlite_sequence.expenses
  /\ \E e \in expenses : budgets[e.category].spent_amount = e.amount

\* C4: a successful add_expense inserts exactly one notification, unread, when
\* the category's spent_amount after the increment is above its limit_amount,
\* and none when it is below or equal to it.
C4_NotificationIffOverLimit ==
  [][ (last'.op \in AddOps /\ last'.error = "none") =>
        \A e \in expenses' \ expenses :
          IF budgets'[e.category].spent_amount > budgets'[e.category].limit_amount
          THEN /\ notifications \subseteq notifications'
               /\ Cardinality(notifications' \ notifications) = 1
               /\ \A n \in notifications' \ notifications : n.status = "unread"
          ELSE notifications' = notifications
    ]_vars

\* an add_expense brought the spend to exactly the limit and notified nothing
C4_Witness ==
  /\ last.op = "add_expense" /\ last.error = "none"
  /\ travel \in DOMAIN budgets
  /\ budgets[travel].spent_amount = budgets[travel].limit_amount
  /\ notifications = {}

\* the notifications a step inserted
NewNotifications == notifications' \ notifications

\* C5: whenever add_expense emits a notification its type is alert exactly
\* when the unrounded ratio spent/limit*100 is above 120 (100*spent > 120*limit)
\* and warning otherwise; limit 250 with spent 301 gives alert.
C5_AlertIffExactRatioAbove120 ==
  [][ (last'.op \in AddOps /\ last'.error = "none") =>
        \A e \in expenses' \ expenses : \A n \in NewNotifications :
          n.type = IF 100 * budgets'[e.category].spent_amount
                        > 120 * budgets'[e.category].limit_amount
                   THEN "alert" ELSE "warning"
    ]_vars

\* the step of the travel scenario: set_budget("travel", 250) has just returned,
\* travel has no spend, and add_expense(300, "flight to NYC", "travel") returns
C6_ScenarioStep ==
  /\ last.op = "set_budget" /\ last.error = "none"
  /\ travel \in DOMAIN budgets
  /\ budgets[travel] = [limit_amount |-> 250, spent_amount |-> 0]
  /\ ExpensesOf(expenses, travel) = {}
  /\ last'.op = "add_expense" /\ last'.error = "none"
  /\ \E e \in expenses' \ expenses :
       e.amount = 300 /\ e.description = flight_to_NYC /\ e.category = travel

\* what the scenario leaves: the overview row of travel (percentage in tenths)
\* and exactly one new notification, of the given type
C6_ScenarioResult(type) ==
  /\ [category |-> travel, limit |-> 250, spent |-> 300, remaining |-> -50,
      percentage |-> 1200, status |-> "exceeded"]
       \in get_budget_overview(Store').categories
  /\ \A row \in get_budget_overview(Store').categories :
       row.category = travel => row.percentage = 1200 /\ row.status = "exceeded"
  /\ Cardinality(NewNotifications) = 1
  /\ \A n \in NewNotifications : n.type = type

\* C6 as stated: set_budget("travel", 250) then add_expense(300, "flight to
\* NYC", "travel") leaves the overview row of travel with limit 250, spent 300,
\* percentage 120.0 and status exceeded, and creates exactly one notification,
\* of type alert.
C6_TravelScenarioAlert ==
  [][ C6_ScenarioStep => C6_ScenarioResult("alert") ]_vars

\* C6 as amended: the same scenario leaves the same overview row and creates
\* exactly one notification, of type warning (120 is not above 120).
C6_TravelScenarioWarning ==
  [][ C6_ScenarioStep => C6_ScenarioResult("warning") ]_vars

\* the scenario has run: the first expense, 300 for travel, against limit 250
C6_Witness ==
  /\ last.op = "add_expense" /\ last.error = "none" /\ last.value = 1
  /\ expenses = {[id |-> 1, amount |-> 300, description |-> flight_to_NYC,
                  category |-> travel]}
  /\ budgets[travel] = [limit_amount |-> 250, spent_amount |-> 300]
  /\ \E n \in notifications : n.message.limit_amount = 250

\* the spend of travel after the expenses with ids up to i were recorded
\* (no expense is deleted in the limit-100 scenario)
RunningTotal(i) == SumAmounts({e \in expenses : e.id <= i})

\* the notification inserted last
Newest(ns) == CHOOSE n \in ns : \A m \in ns : m.id <= n.id

C8_NotificationOnlyOnCrossing ==
  [][ notifications' # notifications =>
        /\ last'.op \in AddOps /\ last'.error = "none"
        /\ \A e \in expenses' \ expenses :
             /\ Spent(budgets, e.category) <= budgets'[e.category].limit_amount
             /\ budgets'[e.category].spent_amount > budgets'[e.category].limit_amount
    ]_vars

\* the arguments add_expense rejects
InvalidExpense(amount, description) ==
  ~Truthy(amount) \/ Float(amount) <= 0 \/ description = <<>>

\* C9: in every reachable store, add_expense with an amount that is missing,
\* 0 or negative, or with an empty description, raises its ValueError whatever
\* the store would do (no statement is reached) and leaves the store as it
\* is; the /add_expense route answers such a form with 400.
C9_InvalidExpenseRejected ==
  /\ \A amount \in Amounts, description \in Descriptions,
        category \in CategoryArgs, fault \in AddExpenseFaults :
       InvalidExpense(amount, description) =>
         LET r == add_expense(Store, amount, description, category, fault)
         IN r.error \in ValueErrors /\ r.db = Store
  /\ \A form \in Forms, fault \in AddExpenseFaults :
       InvalidExpense(Num(Float(FormGet(form, "amount", Num(0)))),
                      FormGet(form, "description", Str(<<>>)).v) =>
         LET r == route_add_expense(Store, form, fault)
         IN r.value = 400 /\ r.db = Store

\* a form without an amount was just answered 400 by a store that holds an
\* expense and a notification
C9_Witness ==
  /\ last.op = "route_add_expense" /\ last.value = 400
  /\ last.error = "ValueError: Amount must be a positive number"
  /\ expenses # {} /\ notifications # {}

NotFound == "ValueError: Expense not found"

\* C10: in every reachable store, delete_expense of an id that matches no
\* stored expense raises the not-found ValueError (when the lookup itself
\* runs) and leaves the store as it is; deleting a stored expense twice
\* decrements its budget once.
C10_DeleteOfAbsentIdRejected ==
  \A expense_id \in ExpenseIds :
    IF SelectExpense(Store, expense_id) = {}
    THEN \A fault \in DeleteExpenseFaults \ {"select_expense"} :
           LET r == delete_expense(Store, expense_id, fault)
           IN r.error = NotFound /\ r.db = Store
    ELSE LET e  == CHOOSE x \in expenses : x.id = expense_id
             r1 == delete_expense(Store, expense_id, "none")
             r2 == delete_expense(r1.db, expense_id, "none")
         IN /\ r1.error = "none"
            /\ r2.error = NotFound /\ r2.db = r1.db
            /\ Spent(r2.db.budgets, e.category) = Spent(budgets, e.category) - e.amount

\* an expense that was deleted before was just deleted again, while its
\* category keeps the spend of another expense
C10_Witness ==
  /\ last.op = "delete_expense" /\ last.error = NotFound
  /\ last.value <= sqlite_sequence.expenses
  /\ \E e \in expenses : budgets[e.category].spent_amount = e.amount

\* C11: in every reachable store, set_budget raises its ValueError exactly
\* when the category is missing or blank or the limit is below 0; for every
\* other category and every limit >= 0, the limit 0 included, it returns and
\* the category's budget row then holds that limit_amount.
C11_SetBudgetRejectsOnlyBlankOrNegative ==
  \A category \in BudgetCategoryArgs, limit_amount \in Limits :
    LET r == set_budget(Store, category, limit_amount, "none")
    IN IF category = PyNone \/ Strip(category.v) = <<>> \/ Float(limit_amount) < 0
       THEN r.error \in SetBudgetValueErrors /\ r.db = Store
       ELSE /\ r.error = "none"
            /\ r.db.budgets[category.v].limit_amount = Float(limit_amount)

\* C12: in every reachable store, a set_budget that returns leaves the
\* expenses, the notifications and the id counters as they are, and changes
\* the budgets table in one place only: the named category's row holds the new
\* limit_amount, with the spent_amount it had (0 for a row that did not
\* exist), also when the new limit is below that spent_amount.
C12_SetBudgetChangesOnlyLimit ==
  \A category \in BudgetCategoryArgs, limit_amount \in Limits :
    LET r == set_budget(Store, category, limit_amount, "none")
    IN r.error = "none" =>
         /\ r.db.expenses = expenses
         /\ r.db.notifications = notifications
         /\ r.db.sqlite_sequence = sqlite_sequence
         /\ DOMAIN r.db.budgets = DOMAIN budgets \cup {category.v}
         /\ \A c \in DOMAIN budgets \ {category.v} : r.db.budgets[c] = budgets[c]
         /\ r.db.budgets[category.v] =
              [limit_amount |-> Float(limit_amount),
               spent_amount |-> Spent(budgets, category.v)]

\* a set_budget just returned and left the limit of travel below its spend
C12_Witness ==
  /\ last.op = "set_budget" /\ last.error = "none"
  /\ travel \in DOMAIN budgets
  /\ budgets[travel].limit_amount < budgets[travel].spent_amount
  /\ ExpensesOf(expenses, food) # {}

\* the keyword-match score of the i-th category for a description
Score(i, description) == Matches(CategoryKeywords[i].keywords, Lower(description))

\* the categories whose score is above the score of every other category
StrictWinners(description) ==
  {i \in 1..Len(CategoryKeywords) :
     \A j \in 1..Len(CategoryKeywords) \ {i} :
       Score(i, description) > Score(j, description)}

\* C13: categorize_expense returns the category whose score is strictly above
\* the score of every other category, and "other" when there is none: when
\* all scores are 0 (the empty description included) and when two or more
\* categories tie for the highest score.
C13_StrictlyHighestOrOther ==
  last.op = "categorize_expense" =>
    LET winners == StrictWinners(last.value.description)
    IN IF winners # {}
       THEN \A i \in winners : last.value.category = CategoryKeywords[i].category
       ELSE last.value.category = other

Matching(category) ==
  IF category = PyNone \/ category.v = <<>> THEN expenses
  ELSE {e \in expenses : e.category = category.v}

\* C15: with N stored expenses matching the filter and a page size L > 0,
\* get_all_expenses at offset o returns min(L, max(0, N - o)) rows and
\* reports total = N and pages = ceil(N / L), the least number of pages of L
\* rows that hold N rows; N = 25, L = 10, o = 0 gives 10 rows and 3 pages.
C15_PageSizeAndPageCount ==
  (last.op = "get_all_expenses" /\ last.value.limit > 0) =>
    LET N == Cardinality(Matching(last.value.category))
        L == last.value.limit
        o == last.value.offset
        p == last.value.pagination
    IN /\ last.error = "none"
       /\ Len(last.value.expenses) = Min(L, Max(0, N - o))
       /\ p.total = N
       /\ p.pages * L >= N /\ (p.pages - 1) * L < N
       /\ (N = 25 /\ L = 10 /\ o = 0) =>
            Len(last.value.expenses) = 10 /\ p.pages = 3

\* the first page of 10 of the 25 stored expenses was just listed
C15_Witness ==
  /\ last.op = "get_all_expenses" /\ last.error = "none"
  /\ Cardinality(expenses) = 25
  /\ last.value.category = PyNone
  /\ last.value.limit = 10 /\ last.value.offset = 0
  /\ Len(last.value.expenses) = 10
  /\ last.value.pagination.total = 25 /\ last.value.pagination.pages = 3

\* the ValueError messages of add_savings_goal
AddGoalValueErrors ==
  {"ValueError: Goal name cannot be empty",
   "ValueError: Target amount must be a positive number",
   "ValueError: A savings goal with that name already exists"}

\* C16: after any sequence of add_savings_goal and update_savings_goal calls,
\* successful or failed, the stored goals have pairwise distinct names, every
\* target_amount is above 0 and every current_savings is at least 0; and
\* add_savings_goal with a missing or blank name, a missing target or one not
\* above 0, or the name (compared case-sensitively) of a stored goal raises
\* its ValueError and leaves the store as it is.
C16_GoalsWellFormed ==
  /\ \A g \in savings_goals, h \in savings_goals :
       g.goal_name = h.goal_name => g = h
  /\ \A g \in savings_goals : g.target_amount > 0 /\ g.current_savings >= 0
  /\ \A goal_name \in GoalNames, target_amount \in GoalTargets :
       (\/ goal_name = PyNone \/ Strip(goal_name.v) = <<>>
        \/ target_amount = PyNone \/ Float(target_amount) <= 0
        \/ \E g \in savings_goals : g.goal_name = goal_name.v) =>
         LET r == add_savings_goal(Store, goal_name, target_amount, "none")
         IN r.error \in AddGoalValueErrors /\ r.db = Store

\* a goal whose name differs from a stored one only in case was just added,
\* after an update of the stored one
C16_Witness ==
  /\ last.op = "add_savings_goal" /\ last.error = "none"
  /\ \E g \in savings_goals, h \in savings_goals :
       /\ g.goal_name = Emergency_Fund /\ h.goal_name = emergency_fund
       /\ g.current_savings = 2500 /\ g.target_amount = 100
       /\ h.id = last.value

\* the goal an identifier resolves to, if any
ResolvesById(goal_id)     == {g \in savings_goals : goal_id # PyNone /\ g.id = goal_id.v}
ResolvesByName(goal_name) == {g \in savings_goals :
                                goal_name # PyNone /\ g.goal_name = goal_name.v}

\* C17: in every reachable store, update_savings_goal with valid values raises
\* the not-found ValueError only if neither the given id nor the given name
\* is that of a stored goal; when the given name is that of a stored goal and
\* the given id (if any) is that of none, the update is applied to the goal of
\* that name.
C17_NotFoundOnlyIfNeitherResolves ==
  \A goal_id \in GoalIdArgs, goal_name \in GoalNameArgs,
     current_savings \in CurrentSavings :
    (current_savings # PyNone /\ Float(current_savings) >= 0) =>
      LET r == update_savings_goal(Store, goal_id, goal_name, current_savings,
                                   PyNone, "none")
      IN /\ r.error = "ValueError: Savings goal not found" =>
              ResolvesById(goal_id) = {} /\ ResolvesByName(goal_name) = {}
         /\ (ResolvesByName(goal_name) # {} /\ ResolvesById(goal_id) = {}) =>
              /\ r.error = "none"
              /\ \A g \in ResolvesByName(goal_name) :
                   [g EXCEPT !.current_savings = Float(current_savings)]
                     \in r.db.savings_goals

\* the non-blank categories that have no budget row
UnknownCategories ==
  {category \in InsightCategoryArgs :
     /\ category # PyNone /\ Strip(category.v) # <<>>
     /\ category.v \notin DOMAIN budgets}

\* C18 as stated: get_budget_insights of a non-blank category that has no
\* budget row fails with a not-found error and returns no result.
C18_InsightsOfUnknownCategoryFails ==
  \A category \in UnknownCategories :
    get_budget_insights(Store, category).error # "none"

\* C18 as amended: get_budget_insights of a non-blank category that has no
\* budget row raises nothing; it returns a result that holds a not-found
\* message naming the category and nothing else (no amounts, no status).
C18_InsightsOfUnknownCategoryIsMessage ==
  \A category \in UnknownCategories :
    LET r == get_budget_insights(Store, category)
    IN /\ r.error = "none"
       /\ DOMAIN r.value = {"message"}
       /\ r.value.message.category = category.v

\* the insights of travel were just asked for while it had no budget row,
\* and the store was left as it was
C18_Witness ==
  /\ last.op = "get_budget_insights" /\ last.error = "none"
  /\ DOMAIN last.value = {"message"}
  /\ last.value.message.category = travel
  /\ travel \notin DOMAIN budgets

\* the overview status that corresponds to an insights status
OverviewStatusOf(status) ==
  CASE status = "danger"  -> "exceeded"
    [] status = "warning" -> "warning"
    [] status = "good"    -> "normal"

\* C19: for every budget row with a limit above 0, get_budget_insights and
\* get_budget_overview give it corresponding statuses, by the thresholds 80
\* and 100 on spent/limit*100: danger with exceeded, warning with warning,
\* good with normal, also for ratios that round to a threshold at one decimal.
C19_InsightsAgreeWithOverview ==
  \A c \in DOMAIN budgets :
    budgets[c].limit_amount > 0 =>
      /\ OverviewStatusOf(get_budget_insights(Store, Str(c)).value.status)
           = OverviewRow(Store, c).status
      /\ OverviewRow(Store, c).status =
           IF budgets[c].spent_amount >= budgets[c].limit_amount THEN "exceeded"
           ELSE IF 100 * budgets[c].spent_amount >= 80 * budgets[c].limit_amount
           THEN "warning" ELSE "normal"

(***************************************************************************)
(* Concurrent requests                                                     *)
(***************************************************************************)
\* every request has returned or raised
AllDone == \A p \in Procs : connections[p].pc = "done"

\* the connections whose request returned
Succeeded == {p \in Procs : connections[p].pc = "done" /\ connections[p].error = "none"}

\* the orders in which the connections of S can run one after the other
Orders(S) ==
  {order \in [1..Cardinality(S) -> S] :
     \A i, j \in 1..Cardinality(S) : i # j => order[i] # order[j]}

\* the request run alone, on a store no other connection uses
Sequential(db, request) ==
  IF request.op = "delete_expense"
  THEN delete_expense(db, request.expense_id, "none")
  ELSE add_expense(db, Num(request.amount), lunch, Str(travel), "none")

RECURSIVE SerialRun(_, _, _)
\* the store after the connections of order[i..] ran one after the other from
\* db, each returning what it returned in the concurrent run; <<>> if one of
\* them does not
SerialRun(db, order, i) ==
  IF i > Len(order) THEN db
  ELSE LET out == Sequential(db, connections[order[i]].request)
       IN IF out.error = "none" /\ out.value = connections[order[i]].value
          THEN SerialRun(out.db, order, i + 1)
          ELSE <<>>

\* the connections whose delete_expense(expense_id) returned
Deleted(expense_id) ==
  {p \in Succeeded : /\ connections[p].request.op = "delete_expense"
                     /\ connections[p].request.expense_id = expense_id}

\* C20: when the statements of concurrent delete_expense and add_expense calls
\* interleave, then once all have finished the store is the one left by the
\* successful calls run one after the other in some order (a failed call has
\* no effect), spent_amount is the sum of the stored expenses of its category,
\* and an expense is deleted, and its amount taken off spent_amount, by at
\* most one of the calls.
C20_ConcurrentRequestsAreAtomic ==
  AllDone =>
    /\ \E order \in Orders(Succeeded) : SerialRun(StartStore, order, 1) = Store
    /\ \A c \in DOMAIN budgets :
         budgets[c].spent_amount = SumAmounts(ExpensesOf(expenses, c))
    /\ \A e \in StartStore.expenses :
         /\ Cardinality(Deleted(e.id)) <= 1
         /\ budgets[e.category].spent_amount >=
              StartStore.budgets[e.category].spent_amount - e.amount

\* two delete_expense(1) calls interleaved: both read the expense, one
\* deleted it and committed, the other was refused its lock and rolled back
C20_Witness ==
  /\ AllDone
  /\ connections[1].request = [op |-> "delete_expense", expense_id |-> 1, amount |-> 0]
  /\ connections[2].request = connections[1].request
  /\ connections[1].error = "sqlite3.Error"
  /\ connections[2].error = "none"
  /\ SelectExpense(Store, 1) = {}
  /\ budgets[travel].spent_amount = StartStore.budgets[travel].spent_amount - 20

\* a delete_expense and an add_expense on the same category interleaved and
\* both took effect
C20_WitnessDeleteAndAdd ==
  /\ AllDone
  /\ connections[1].request = [op |-> "delete_expense", expense_id |-> 1, amount |-> 0]
  /\ connections[2].request.op = "add_expense"
  /\ Succeeded = Procs
  /\ Cardinality(notifications) > Cardinality(StartStore.notifications)

(***************************************************************************)
(* Chat histories                                                          *)
(***************************************************************************)
\* user, model, user, model, ...: every user entry is followed by a model entry
Alternates(history) ==
  /\ Len(history) % 2 = 0
  /\ \A i \in 1..Len(history) :
       history[i].role = IF i % 2 = 1 THEN "user" ELSE "model"

\* C21: after any sequence of /chat requests (expense commands, budget
\* commands, free text, the model call returning or raising) every chat
\* history is a strict alternation user, model, user, model, ...; a request
\* that ends in the error response leaves no entry behind.
C21_HistoriesAlternate ==
  \A user_id \in DOMAIN chat_histories : Alternates(chat_histories[user_id])

\* the browser that sent the message of a user entry
SentBy(entry) == DigitValue(entry.parts[1][1])

\* the browsers whose messages are stored in a history
Senders(history) ==
  {SentBy(history[i]) : i \in {k \in 1..Len(history) : history[k].role = "user"}}

\* C22: no chat history holds messages of two browser sessions, and a /chat
\* request hands the model no message that another session sent, whenever the
\* sessions were created and whether or not they visited the index page first.
C22_HistoriesIsolated ==
  /\ \A user_id \in DOMAIN chat_histories :
       Cardinality(Senders(chat_histories[user_id])) <= 1
  /\ \A b \in Browsers :
       Senders(chat(Store, chat_histories, UserIdOf(b), Say(b, hi), model,
                    "none", "ok").context) \subseteq {b}

\* two browsers that never visited the index page share the history of
\* 'default_user'
C22_SharedDefaultUser ==
  /\ session[1] = NoCookie /\ session[2] = NoCookie
  /\ default_user \in DOMAIN chat_histories
  /\ Senders(chat_histories[default_user]) = {1, 2}

\* two browsers that visited the index page within one second share one
\* user_id and its history
C22_SharedSameSecond ==
  /\ session[1] # NoCookie /\ session[1] = session[2]
  /\ now = 1
  /\ Senders(chat_histories[session[1]]) = {1, 2}

====
